---- MODULE Spec2Model ----
(***************************************************************************)
(* FairLens Pro v2 (src/app.py): the session's review table, the submit    *)
(* and upload handlers of one script run, the CSV export/import            *)
(* conversions, the phrase flagger find_flags and the fairness sections    *)
(* of the audit tab.                                                       *)
(*                                                                         *)
(* Text is a sequence of characters, each character a one-character        *)
(* string; the two tokens "U+0130" and "U+0307" each stand for the single  *)
(* code point of that number.  Python indexes are kept 0-based.            *)
(***************************************************************************)
EXTENDS Integers, Sequences, FiniteSets, TLC

VARIABLES
    seeded,      \* "reviews" in st.session_state
    reviews,     \* st.session_state.reviews: [columns, rows]
    uploaded,    \* the file held by the st.file_uploader widget, or NoFile
    trigger,     \* what the user did to start this script run
    form,        \* the values the review form delivers to this script run
    pc,          \* position of the script run
    submit_msg,  \* st.error / st.success of the submit handler in this run
    upload_msg,  \* st.error / st.success of the upload handler in this run
    buf,         \* the text behind the "Download Current Reviews CSV" button
    nsub,        \* number of reviews saved in this session
    run_start,   \* the review table when this script run began
    all_flags,   \* the rows of the "Text Bias Flags" table
    by_group,    \* st.selectbox "Compare by group"
    threshold,   \* st.slider "Meets/Exceeds threshold", in tenths
    gap_sec,     \* what the "Mean Overall Rating Gap" section rendered
    air_sec,     \* what the "Meets/Exceeds Parity" section rendered
    text,        \* find_flags: the argument
    flags        \* find_flags: the returned list, or NotCalled

vars == <<seeded, reviews, uploaded, trigger, form, pc, submit_msg, upload_msg, buf, nsub,
          run_start, all_flags, by_group, threshold, gap_sec, air_sec, text, flags>>

auditVars == <<all_flags, by_group, threshold, gap_sec, air_sec>>
flagVars == <<text, flags>>

----------------------------------------------------------------------------
(* Bounds of the model *)

MaxPieces == 3
MaxSubmits == 2
MaxRows == 3

----------------------------------------------------------------------------
(* Sequences and numbers *)

Min(S) == CHOOSE x \in S : \A y \in S : x <= y

Abs(x) == IF x < 0 THEN -x ELSE x

RECURSIVE Flatten(_)
Flatten(ss) == IF ss = <<>> THEN <<>> ELSE Head(ss) \o Flatten(Tail(ss))

Range(s) == {s[i] : i \in 1..Len(s)}

----------------------------------------------------------------------------
(* Bias rules *)

VAGUE == <<
    <<"h","a","r","d"," ","w","o","r","k","e","r">>,
    <<"g","o","o","d"," ","a","t","t","i","t","u","d","e">>,
    <<"a","v","e","r","a","g","e">>,
    <<"i","m","p","r","o","v","e"," ","c","o","m","m","u","n","i","c","a","t","i","o","n">>,
    <<"t","e","a","m"," ","p","l","a","y","e","r">>,
    <<"w","o","r","k","s"," ","w","e","l","l"," ","u","n","d","e","r"," ","p","r","e","s","s","u","r","e">>,
    <<"s","t","r","o","n","g"," ","p","o","t","e","n","t","i","a","l">>,
    <<"f","i","t">>,
    <<"n","o","t"," ","a"," ","g","o","o","d"," ","f","i","t">> >>

BIAS == <<
    <<"y","o","u","n","g">>,
    <<"o","l","d">>,
    <<"e","n","e","r","g","e","t","i","c">>,
    <<"e","m","o","t","i","o","n","a","l">>,
    <<"b","o","s","s","y">>,
    <<"c","u","l","t","u","r","a","l"," ","f","i","t">>,
    <<"g","i","r","l","s">>,
    <<"g","u","y","s">>,
    <<"a","g","g","r","e","s","s","i","v","e">> >>

UpperCase == <<"A","B","C","D","E","F","G","H","I","J","K","L","M","N","O","P","Q","R","S","T","U","V","W","X","Y","Z">>
LowerCase == <<"a","b","c","d","e","f","g","h","i","j","k","l","m","n","o","p","q","r","s","t","u","v","w","x","y","z">>

(* str.lower() of one character: the Unicode lower-case mapping.  It maps   *)
(* U+0130 (capital I with dot above) to the two characters "i", U+0307.     *)
LowerChar(c) ==
    IF c = "U+0130" THEN <<"i", "U+0307">>
    ELSE IF \E i \in 1..Len(UpperCase) : UpperCase[i] = c
         THEN <<LowerCase[CHOOSE i \in 1..Len(UpperCase) : UpperCase[i] = c]>>
         ELSE <<c>>

(* text.lower() *)
Lower(t) == Flatten([i \in 1..Len(t) |-> LowerChar(t[i])])

(* term occupies t[idx : idx + len(term)] (0-based idx) *)
MatchAt(t, term, idx) ==
    /\ idx >= 0
    /\ idx + Len(term) <= Len(t)
    /\ \A k \in 1..Len(term) : t[idx + k] = term[k]

(* str.find(term, start): lowest index >= start of an occurrence, else -1 *)
Find(t, term, start) ==
    LET hits == {i \in start..(Len(t) - Len(term)) : MatchAt(t, term, i)}
    IN  IF hits = {} THEN -1 ELSE Min(hits)

Category(term) == IF term \in Range(VAGUE) THEN "Vague" ELSE "Bias"

GapStep(idx, term) == idx + Len(term) + 1

(* start = idx + len(term) *)
NextStart(idx, term) == idx + Len(term)

(* the while True loop of find_flags for one term *)
RECURSIVE ScanTerm(_, _, _)
ScanTerm(text_l, term, start) ==
    LET idx == Find(text_l, term, start)
    IN  IF idx = -1 THEN <<>>
        ELSE <<[phrase |-> term, category |-> Category(term), index |-> idx]>>
             \o ScanTerm(text_l, term, NextStart(idx, term))

(* VAGUE + BIAS, the order of the for loop *)
Terms == VAGUE \o BIAS

find_flags(t) ==
    IF t = <<>> THEN <<>>
    ELSE LET text_l == Lower(t)
         IN  Flatten([i \in 1..Len(Terms) |-> ScanTerm(text_l, Terms[i], 0)])

----------------------------------------------------------------------------
(* Cell values of a DataFrame: a Python str, an int64, a float64 (kept in  *)
(* tenths) or NaN.                                                         *)

StrV(s) == [t |-> "str", s |-> s, n |-> 0]
IntV(n) == [t |-> "int", s |-> <<>>, n |-> n]
FloatV(n10) == [t |-> "float", s |-> <<>>, n |-> n10]
NaN == [t |-> "nan", s |-> <<>>, n |-> 0]

IsNull(v) == v.t = "nan"

Digits == <<"0","1","2","3","4","5","6","7","8","9">>

IsDigit(c) == \E i \in 1..Len(Digits) : Digits[i] = c
DigitVal(c) == (CHOOSE i \in 1..Len(Digits) : Digits[i] = c) - 1

RECURSIVE NatText(_)
NatText(n) ==
    IF n < 10 THEN <<Digits[n + 1]>>
    ELSE NatText(n \div 10) \o <<Digits[(n % 10) + 1]>>

(* str(n) of an int *)
IntText(n) == IF n < 0 THEN <<"-">> \o NatText(-n) ELSE NatText(n)

(* repr of a float with one decimal, as to_csv and str() write it: 7.0 *)
FloatText(n10) ==
    (IF n10 < 0 THEN <<"-">> ELSE <<>>)
    \o NatText(Abs(n10) \div 10) \o <<".">> \o NatText(Abs(n10) % 10)

(* str(value), as in str(row.get("comment", "")) *)
PyStr(v) ==
    CASE v.t = "str" -> v.s
      [] v.t = "int" -> IntText(v.n)
      [] v.t = "float" -> FloatText(v.n)
      [] OTHER -> <<"n","a","n">>

(* s.strip() *)
IsSpace(c) == c = " "
RECURSIVE LStrip(_)
LStrip(s) == IF s # <<>> /\ IsSpace(Head(s)) THEN LStrip(Tail(s)) ELSE s
RECURSIVE RStrip(_)
RStrip(s) ==
    IF s # <<>> /\ IsSpace(s[Len(s)]) THEN RStrip(SubSeq(s, 1, Len(s) - 1)) ELSE s
Strip(s) == RStrip(LStrip(s))

----------------------------------------------------------------------------
(* The review table *)

Needed == {"employee_id", "role", "gender", "kpi_rating", "competency_rating",
           "initiative_rating", "overall_rating", "comment"}

Columns == <<"employee_id", "role", "gender", "kpi_rating", "competency_rating",
             "initiative_rating", "overall_rating", "comment">>

NoTable == [columns |-> <<>>, rows |-> <<>>]

Row(id, role, gender, kpi, comp, initv, overall, comment) ==
    [employee_id |-> id, role |-> role, gender |-> gender, kpi_rating |-> kpi,
     competency_rating |-> comp, initiative_rating |-> initv,
     overall_rating |-> overall, comment |-> comment]

(* f"E{i:03d}" *)
EmpId(i) == <<"E", Digits[((i \div 100) % 10) + 1], Digits[((i \div 10) % 10) + 1],
              Digits[(i % 10) + 1]>>

SeedRole == [i \in 1..10 |-> IF i <= 5 THEN <<"M","a","n","a","g","e","r">> ELSE <<"A","n","a","l","y","s","t">>]
SeedGender == [i \in 1..10 |-> IF i % 2 = 1 THEN <<"F">> ELSE <<"M">>]
SeedKpi == <<4, 3, 4, 3, 4, 3, 3, 3, 4, 3>>
SeedCompetency == <<4, 4, 3, 3, 4, 3, 3, 3, 4, 3>>
SeedInitiative == <<4, 3, 3, 3, 4, 3, 3, 3, 4, 3>>
SeedOverall == <<4, 3, 3, 3, 4, 3, 3, 3, 4, 3>>
SeedComment == <<
    <<"S","t","r","o","n","g"," ","p","o","t","e","n","t","i","a","l",";"," ","t","e","a","m"," ","p","l","a","y","e","r",".">>,
    <<"M","e","e","t","s"," ","g","o","a","l","s"," ","b","u","t"," ","n","o","t"," ","a"," ","g","o","o","d"," ","f","i","t",".">>,
    <<"H","a","r","d"," ","w","o","r","k","e","r",";"," ","n","e","e","d","s"," ","t","o"," ","i","m","p","r","o","v","e"," ","c","o","m","m","u","n","i","c","a","t","i","o","n",".">>,
    <<"E","n","e","r","g","e","t","i","c"," ","a","n","d"," ","a","m","b","i","t","i","o","u","s",".">>,
    <<"G","o","o","d"," ","a","t","t","i","t","u","d","e",";"," ","w","o","r","k","s"," ","w","e","l","l"," ","u","n","d","e","r"," ","p","r","e","s","s","u","r","e",".">>,
    <<"C","a","n"," ","b","e"," ","e","m","o","t","i","o","n","a","l"," ","i","n"," ","f","e","e","d","b","a","c","k",".">>,
    <<"A","v","e","r","a","g","e"," ","p","e","r","f","o","r","m","a","n","c","e",";"," ","c","a","n"," ","s","t","e","p"," ","u","p",".">>,
    <<"A","g","g","r","e","s","s","i","v","e"," ","a","t"," ","t","i","m","e","s",".">>,
    <<"G","r","e","a","t"," ","c","u","l","t","u","r","e"," ","f","i","t",".">>,
    <<"B","o","s","s","y"," ","i","n"," ","t","e","a","m"," ","s","e","t","t","i","n","g","s",".">> >>

(* the seed DataFrame *)
SeedData ==
    [columns |-> Columns,
     rows |-> [i \in 1..10 |->
                 Row(StrV(EmpId(i)), StrV(SeedRole[i]), StrV(SeedGender[i]),
                     IntV(SeedKpi[i]), IntV(SeedCompetency[i]), IntV(SeedInitiative[i]),
                     IntV(SeedOverall[i]), StrV(SeedComment[i]))]]

ColSet(df) == Range(df.columns)

(* dtype promotion of one column: int64 next to float64 or NaN, and no    *)
(* str, is float64                                                         *)
Promote(colvals, v) ==
    IF /\ v.t = "int"
       /\ \E w \in colvals : w.t \in {"float", "nan"}
       /\ \A w \in colvals : w.t # "str"
    THEN FloatV(v.n * 10)
    ELSE v

(* pd.concat([df, new_row], ignore_index=True) *)
Concat(df, new_row) ==
    LET added == SelectSeq(Columns, LAMBDA c : c \notin ColSet(df))
        cols == df.columns \o added
        raw == [i \in 1..(Len(df.rows) + 1) |->
                  [c \in Range(cols) |->
                     IF i <= Len(df.rows)
                     THEN (IF c \in ColSet(df) THEN df.rows[i][c] ELSE NaN)
                     ELSE (IF c \in DOMAIN new_row THEN new_row[c] ELSE NaN)]]
        colvals(c) == {raw[i][c] : i \in 1..Len(raw)}
    IN  [columns |-> cols,
         rows |-> [i \in 1..Len(raw) |->
                     [c \in Range(cols) |-> Promote(colvals(c), raw[i][c])]]]

----------------------------------------------------------------------------
(* CSV text.  A file is its header and its rows of cell texts; the comma   *)
(* and quote layer, which the writer and the reader undo for each other,   *)
(* is not modelled.  kind "bad" is a file read_csv raises on.              *)

NoFile == [kind |-> "none", header |-> <<>>, rows |-> <<>>]
BadFile == [kind |-> "bad", header |-> <<>>, rows |-> <<>>]
CsvFile(header, rows) == [kind |-> "csv", header |-> header, rows |-> rows]

(* to_csv writes a value: na_rep is the empty text *)
FormatCell(v) ==
    CASE v.t = "str" -> v.s
      [] v.t = "int" -> IntText(v.n)
      [] v.t = "float" -> FloatText(v.n)
      [] OTHER -> <<>>

(* df.to_csv(buf, index=False) *)
to_csv(df) ==
    CsvFile(df.columns,
            [i \in 1..Len(df.rows) |->
               [c \in ColSet(df) |-> FormatCell(df.rows[i][c])]])

(* the texts read_csv takes for a missing value (its default na_values) *)
NAStrings == {
    <<>>, <<"#","N","/","A">>, <<"#","N","/","A"," ","N","/","A">>, <<"#","N","A">>, <<"-","1",".","#","I","N","D">>, <<"-","1",".","#","Q","N","A","N">>, <<"-","N","a","N">>,
    <<"-","n","a","n">>, <<"1",".","#","I","N","D">>, <<"1",".","#","Q","N","A","N">>, <<"<","N","A",">">>, <<"N","/","A">>, <<"N","A">>, <<"N","U","L","L">>,
    <<"N","a","N">>, <<"n","/","a">>, <<"n","a","n">>, <<"n","u","l","l">> }

IsNA(s) == s \in NAStrings

Unsigned(s) == IF s # <<>> /\ Head(s) \in {"-", "+"} THEN Tail(s) ELSE s
Sign(s) == IF s # <<>> /\ Head(s) = "-" THEN -1 ELSE 1

AllDigits(s) == s # <<>> /\ \A i \in 1..Len(s) : IsDigit(s[i])

RECURSIVE NatVal(_)
NatVal(s) ==
    IF s = <<>> THEN 0 ELSE NatVal(SubSeq(s, 1, Len(s) - 1)) * 10 + DigitVal(s[Len(s)])

(* an integer literal: leading zeros are read as part of the number *)
IsIntLit(s) == AllDigits(Unsigned(s))
IntVal(s) == Sign(s) * NatVal(Unsigned(s))

(* a decimal literal with one fractional digit *)
IsFloatLit(s) ==
    LET u == Unsigned(s)
    IN  /\ Len(u) >= 3
        /\ u[Len(u) - 1] = "."
        /\ AllDigits(SubSeq(u, 1, Len(u) - 2))
        /\ IsDigit(u[Len(u)])
FloatVal(s) ==
    LET u == Unsigned(s)
    IN  Sign(s) * (NatVal(SubSeq(u, 1, Len(u) - 2)) * 10 + DigitVal(u[Len(u)]))

(* read_csv infers one dtype per column from its cell texts and converts   *)
(* each cell *)
ParseCell(cells, s) ==
    LET present == {x \in cells : ~IsNA(x)}
        anyNA == \E x \in cells : IsNA(x)
    IN  IF IsNA(s) THEN NaN
        ELSE IF \A x \in present : IsIntLit(x)
             THEN (IF anyNA THEN FloatV(IntVal(s) * 10) ELSE IntV(IntVal(s)))
        ELSE IF \A x \in present : IsIntLit(x) \/ IsFloatLit(x)
             THEN (IF IsIntLit(s) THEN FloatV(IntVal(s) * 10) ELSE FloatV(FloatVal(s)))
        ELSE StrV(s)

(* pd.read_csv(uploaded): [ok, df] *)
read_csv(file) ==
    IF file.kind # "csv" THEN [ok |-> FALSE, df |-> NoTable]
    ELSE LET cells(c) == {file.rows[i][c] : i \in 1..Len(file.rows)}
         IN  [ok |-> TRUE,
              df |-> [columns |-> file.header,
                      rows |-> [i \in 1..Len(file.rows) |->
                                  [c \in Range(file.header) |->
                                     ParseCell(cells(c), file.rows[i][c])]]]]

----------------------------------------------------------------------------
(* Tab 2: the audit dashboard, computed on df = reviews.copy() *)

GroupOptions == <<"gender", "role">>

(* st.slider(..., 1.0, 5.0, 3.0, 0.5), in tenths *)
ThresholdMin == 10
ThresholdMax == 50
ThresholdDefault == 30
ThresholdStep == 5
Thresholds == {t \in ThresholdMin..ThresholdMax : (t - ThresholdMin) % ThresholdStep = 0}

(* a section the run has not rendered yet *)
NotShown == [shown |-> "none", g1 |-> NaN, g2 |-> NaN, num |-> 0, den |-> 1,
             nan |-> FALSE, rates |-> {}, advice |-> "none"]

(* the flags table: one row per flag of every review's comment *)
FlagRows(df) ==
    Flatten([i \in 1..Len(df.rows) |->
               LET row == df.rows[i]
                   found == find_flags(PyStr(row["comment"]))
               IN  [j \in 1..Len(found) |->
                      [employee_id |-> row["employee_id"], role |-> row["role"],
                       gender |-> row["gender"], phrase |-> found[j].phrase,
                       category |-> found[j].category]]])

(* df[col].dropna().unique(): the non-null values in order of first appearance *)
RECURSIVE UniqueFrom(_, _)
UniqueFrom(vals, seen) ==
    IF vals = <<>> THEN <<>>
    ELSE IF IsNull(Head(vals)) \/ Head(vals) \in seen THEN UniqueFrom(Tail(vals), seen)
    ELSE <<Head(vals)>> \o UniqueFrom(Tail(vals), seen \cup {Head(vals)})

ColumnOf(df, col) == [i \in 1..Len(df.rows) |-> df.rows[i][col]]

RECURSIVE UniqueKeepNull(_, _)
UniqueKeepNull(vals, seen) ==
    IF vals = <<>> THEN <<>>
    ELSE IF Head(vals) \in seen THEN UniqueKeepNull(Tail(vals), seen)
    ELSE <<Head(vals)>> \o UniqueKeepNull(Tail(vals), seen \cup {Head(vals)})

UniqueNoDropna(df, col) == UniqueKeepNull(ColumnOf(df, col), {})

Unique(df, col) == UniqueFrom(ColumnOf(df, col), {})

RowsOf(df, col, g) == {i \in 1..Len(df.rows) : df.rows[i][col] = g}

Count(df, col, g) == Cardinality(RowsOf(df, col, g))

Perms(S) ==
    {p \in [1..Cardinality(S) -> S] : \A i, j \in 1..Cardinality(S) : p[i] = p[j] => i = j}

AscendingCounts(df, col) ==
    {p \in Perms(Range(Unique(df, col))) :
        \A i \in 1..(Len(p) - 1) : Count(df, col, p[i]) <= Count(df, col, p[i + 1])}

(* df[col].value_counts().index.tolist(): the non-null values by descending *)
(* count.  pandas documents the descending order only; the order it gives   *)
(* values of equal count is left to its sort, and every such order is an    *)
(* outcome.                                                                 *)
ValueCounts(df, col) ==
    {p \in Perms(Range(Unique(df, col))) :
        \A i \in 1..(Len(p) - 1) : Count(df, col, p[i]) >= Count(df, col, p[i + 1])}

RECURSIVE SumOver(_, _, _)
SumOver(df, col, S) ==
    IF S = {} THEN 0
    ELSE LET i == CHOOSE x \in S : TRUE
         IN  df.rows[i][col].n + SumOver(df, col, S \ {i})

(* df[df[col] == g]["overall_rating"].mean(), as the fraction num/den; the *)
(* ratings of every table of the model are int64                           *)
MeanOverall(df, col, g) ==
    [num |-> SumOver(df, "overall_rating", RowsOf(df, col, g)),
     den |-> Count(df, col, g)]

(* gap >= 0.30 *)
GapAdvice(num, den) == IF 10 * num >= 3 * den THEN "warning" ELSE "success"

(* abs(m1 - m2), as the fraction num/den *)
GapOf(m1, m2) == Abs(m1.num * m2.den - m2.num * m1.den)

(* the "Mean Overall Rating Gap" section, for one order of value_counts *)
GapResult(df, col, counts) ==
    IF Len(Unique(df, col)) >= 2
    THEN LET g1 == counts[1]
             g2 == counts[2]
             m1 == MeanOverall(df, col, g1)
             m2 == MeanOverall(df, col, g2)
             num == GapOf(m1, m2)
             den == m1.den * m2.den
         IN  [shown |-> "gap", g1 |-> g1, g2 |-> g2, num |-> num, den |-> den,
              nan |-> FALSE, rates |-> {}, advice |-> GapAdvice(num, den)]
    ELSE [NotShown EXCEPT !.shown = "info"]

(* one row of rates: the mean of meets = (overall_rating >= threshold) over *)
(* the group's rows, as the fraction k/n *)
Rate(df, col, g, th) ==
    [group |-> g,
     k |-> Cardinality({i \in RowsOf(df, col, g) : df.rows[i]["overall_rating"].n * 10 >= th}),
     n |-> Count(df, col, g)]

(* the keys of df.groupby(col): the distinct non-null values *)
GroupKeys(df, col) == {v \in Range(ColumnOf(df, col)) : ~IsNull(v)}

(* rates: one row per group *)
Rates(df, col, th) == {Rate(df, col, g, th) : g \in GroupKeys(df, col)}

FracLeq(a, b) == a.k * b.n <= b.k * a.n

(* rates["rate"].max() and .min() *)
MaxRate(rates) == CHOOSE r \in rates : \A q \in rates : FracLeq(q, r)
MinRate(rates) == CHOOSE r \in rates : \A q \in rates : FracLeq(r, q)

AirAdviceNanIsError(isnan, num, den) ==
    IF isnan \/ 10 * num < 8 * den THEN "error" ELSE "success"

(* if air < 0.80: a comparison with NaN is False *)
AirAdvice(isnan, num, den) ==
    IF ~isnan /\ 10 * num < 8 * den THEN "error" ELSE "success"

AirUnguarded(df, col, th) ==
    LET rates == Rates(df, col, th)
    IN  IF Cardinality(rates) >= 2
        THEN LET top == MaxRate(rates)
                 bottom == MinRate(rates)
                 num == bottom.k * top.n
                 den == bottom.n * top.k
             IN  [shown |-> "air", g1 |-> NaN, g2 |-> NaN,
                  num |-> IF den = 0 THEN 0 ELSE num, den |-> IF den = 0 THEN 1 ELSE den,
                  nan |-> FALSE, rates |-> rates,
                  advice |-> AirAdvice(FALSE, IF den = 0 THEN 0 ELSE num,
                                       IF den = 0 THEN 1 ELSE den)]
        ELSE [NotShown EXCEPT !.shown = "info", !.rates = rates]

(* the "Meets/Exceeds Parity (AIR proxy)" section; air = bottom / top if    *)
(* top > 0 else NaN, as the fraction num/den                                *)
AirResult(df, col, th) ==
    LET rates == Rates(df, col, th)
    IN  IF Cardinality(rates) >= 2
        THEN LET top == MaxRate(rates)
                 bottom == MinRate(rates)
                 isnan == ~(top.k > 0)
                 num == IF isnan THEN 0 ELSE bottom.k * top.n
                 den == IF isnan THEN 1 ELSE bottom.n * top.k
             IN  [shown |-> "air", g1 |-> NaN, g2 |-> NaN, num |-> num, den |-> den,
                  nan |-> isnan, rates |-> rates, advice |-> AirAdvice(isnan, num, den)]
        ELSE [NotShown EXCEPT !.shown = "info", !.rates = rates]

FlagsTable ==
    /\ pc = "flags"
    /\ all_flags' = FlagRows(reviews)
    /\ pc' = "gap"
    /\ UNCHANGED <<seeded, reviews, uploaded, trigger, form, submit_msg, upload_msg, buf, nsub,
                   run_start, by_group, threshold, gap_sec, air_sec>>
    /\ UNCHANGED flagVars

GapSection ==
    /\ pc = "gap"
    /\ \E counts \in ValueCounts(reviews, by_group) :
           gap_sec' = GapResult(reviews, by_group, counts)
    /\ pc' = "air"
    /\ UNCHANGED <<seeded, reviews, uploaded, trigger, form, submit_msg, upload_msg, buf, nsub,
                   run_start, all_flags, by_group, threshold, air_sec>>
    /\ UNCHANGED flagVars

AirSection ==
    /\ pc = "air"
    /\ air_sec' = AirResult(reviews, by_group, threshold)
    /\ pc' = "export"
    /\ UNCHANGED <<seeded, reviews, uploaded, trigger, form, submit_msg, upload_msg, buf, nsub,
                   run_start, all_flags, by_group, threshold, gap_sec>>
    /\ UNCHANGED flagVars

----------------------------------------------------------------------------
(* What the user enters *)

RoleOptions == <<<<"M","a","n","a","g","e","r">>, <<"A","n","a","l","y","s","t">>, <<"E","n","g","i","n","e","e","r">>, <<"S","a","l","e","s">>, <<"O","t","h","e","r">>>>
GenderOptions == <<<<"F">>, <<"M">>, <<"N","o","n","-","b","i","n","a","r","y","/","O","t","h","e","r">>>>

DefaultComment ==
    <<"S","h","e"," ","i","s"," ","a"," ","h","a","r","d"," ","w","o","r","k","e","r"," ","a","n","d"," ","a"," ","g","o","o","d"," ","c","u","l","t","u","r","a","l"," ","f","i","t"," ","b","u","t"," ","n","e","e","d","s"," ","t","o"," ","i","m","p","r","o","v","e"," ","c","o","m","m","u","n","i","c","a","t","i","o","n",".">>

Form(submitted, id, role, gender, kpi, comp, initv, overall, comment) ==
    [submitted |-> submitted, employee_id |-> id, role |-> role, gender |-> gender,
     kpi |-> kpi, comp |-> comp, initv |-> initv, overall |-> overall,
     comment |-> comment]

(* a run the form did not trigger: the widgets hold their defaults *)
NoForm == Form(FALSE, <<>>, RoleOptions[1], GenderOptions[1], 3, 3, 3, 3, DefaultComment)

(* the forms submitted in the model *)
FormInputs == <<
    Form(TRUE, <<" ","E","0","1","1">>, RoleOptions[3], GenderOptions[1], 3, 3, 3, 3, DefaultComment),
    Form(TRUE, <<"0","0","7">>, RoleOptions[1], GenderOptions[3], 5, 4, 3, 2, <<>>),
    Form(TRUE, <<" "," ">>, RoleOptions[2], GenderOptions[2], 3, 3, 3, 3, <<"f","i","t">>),
    Form(TRUE, <<"N","A">>, RoleOptions[2], GenderOptions[2], 1, 1, 1, 1, <<" ","O","l","d"," ","f","i","t"," ">>) >>

TextRow(id, role, gender, kpi, comp, initv, overall, comment) ==
    Row(id, role, gender, kpi, comp, initv, overall, comment)

(* a file without the comment column *)
MissingColumnFile ==
    LET h == SubSeq(Columns, 1, 7)
    IN  CsvFile(h, << [c \in Range(h) |->
                        TextRow(<<"E","1">>, <<"S","a","l","e","s">>, <<"M">>, <<"3">>, <<"3">>, <<"3">>, <<"3">>,
                                <<>>)[c]] >>)

(* a file holding the header line only *)
HeaderOnlyFile == CsvFile(Columns, <<>>)

(* a file with number-like and missing cells *)
MixedFile ==
    CsvFile(Columns,
            << TextRow(<<"7">>, <<"M","a","n","a","g","e","r">>, <<"F">>, <<"4">>, <<"4">>, <<"4">>, <<"4">>, <<>>),
               TextRow(<<"N","A">>, <<"A","n","a","l","y","s","t">>, <<>>, <<"3">>, <<"3">>, <<"3">>, <<"2">>, <<"o","l","d">>) >>)

(* a file with one column more than required *)
ExtraColumnFile ==
    LET h == Columns \o <<"site">>
    IN  CsvFile(h, << [c \in Range(h) |->
                        IF c = "site" THEN <<"5">>
                        ELSE TextRow(<<"E","1">>, <<"S","a","l","e","s">>, <<"M">>, <<"3">>, <<"3">>, <<"3">>,
                                     <<"5">>, <<"Y","o","u","n","g"," ","g","u","y","s">>)[c]] >>)

FileInputs == {BadFile, MissingColumnFile, HeaderOnlyFile, MixedFile, ExtraColumnFile}

----------------------------------------------------------------------------
(* The handlers of one script run *)

(* the row the submit handler builds *)
NewRow(f) ==
    Row(StrV(Strip(f.employee_id)), StrV(f.role), StrV(f.gender), IntV(f.kpi),
        IntV(f.comp), IntV(f.initv), IntV(f.overall), StrV(Strip(f.comment)))

SubmitPrepend(f, table) ==
    IF ~f.submitted THEN [reviews |-> table, msg |-> "none"]
    ELSE IF Strip(f.employee_id) = <<>> THEN [reviews |-> table, msg |-> "error"]
    ELSE [reviews |-> [columns |-> table.columns,
                       rows |-> <<NewRow(f)>> \o table.rows],
          msg |-> "success"]

(* if submitted: ... *)
SubmitResult(f, table) ==
    IF ~f.submitted THEN [reviews |-> table, msg |-> "none"]
    ELSE IF Strip(f.employee_id) = <<>> THEN [reviews |-> table, msg |-> "error"]
    ELSE [reviews |-> Concat(table, NewRow(f)), msg |-> "success"]

UploadNoColumnCheck(file, table) ==
    IF file.kind = "none" THEN [reviews |-> table, msg |-> "none"]
    ELSE LET r == read_csv(file)
         IN  IF ~r.ok THEN [reviews |-> table, msg |-> "error"]
             ELSE [reviews |-> r.df,
                   msg |-> IF Needed \subseteq ColSet(r.df) THEN "success" ELSE "error"]

(* if uploaded: try ... except; executed by every script run while the    *)
(* uploader holds a file, which read_csv then reads from its start         *)
UploadResult(file, table) ==
    IF file.kind = "none" THEN [reviews |-> table, msg |-> "none"]
    ELSE LET r == read_csv(file)
         IN  IF ~r.ok THEN [reviews |-> table, msg |-> "error"]
             ELSE IF ~(Needed \subseteq ColSet(r.df))
                  THEN [reviews |-> table, msg |-> "error"]
             ELSE [reviews |-> r.df, msg |-> "success"]

(* A script run starts when the user acts on a widget.  The run reads what *)
(* the widgets hold: the form values of this submission and the file the   *)
(* uploader keeps until the user removes it.                               *)
StartRun(what, f, file) ==
    /\ pc = "idle"
    /\ trigger' = what
    /\ form' = f
    /\ uploaded' = file
    /\ submit_msg' = "none"
    /\ upload_msg' = "none"
    /\ run_start' = reviews
    /\ pc' = "seed"
    /\ all_flags' = <<>>
    /\ gap_sec' = NotShown
    /\ air_sec' = NotShown
    /\ UNCHANGED <<seeded, reviews, buf, nsub, by_group, threshold>>
    /\ UNCHANGED flagVars

(* a rerun that carries no submission and no change of the uploader *)
Rerun == StartRun("rerun", NoForm, uploaded)

(* "Save Review" *)
Submit ==
    \E k \in 1..Len(FormInputs) :
        /\ nsub < MaxSubmits
        /\ StartRun("submit", FormInputs[k], uploaded)

(* the user picks a file, which may be a file downloaded before *)
Upload ==
    \E file \in FileInputs \cup {buf} :
        /\ file.kind # "none"
        /\ file # uploaded
        /\ StartRun("upload", NoForm, file)

(* the user removes the file from the uploader *)
RemoveFile ==
    /\ uploaded.kind # "none"
    /\ StartRun("remove", NoForm, NoFile)

(* if "reviews" not in st.session_state *)
Seed ==
    /\ pc = "seed"
    /\ reviews' = IF seeded THEN reviews ELSE SeedData
    /\ seeded' = TRUE
    /\ pc' = "submit"
    /\ UNCHANGED <<uploaded, trigger, form, submit_msg, upload_msg, buf, nsub, run_start>>
    /\ UNCHANGED <<auditVars, flagVars>>

SubmitHandler ==
    /\ pc = "submit"
    /\ LET r == SubmitResult(form, reviews)
       IN  /\ reviews' = r.reviews
           /\ submit_msg' = r.msg
           /\ nsub' = IF r.msg = "success" THEN nsub + 1 ELSE nsub
    /\ pc' = "upload"
    /\ UNCHANGED <<seeded, uploaded, trigger, form, upload_msg, buf, run_start>>
    /\ UNCHANGED <<auditVars, flagVars>>

UploadHandler ==
    /\ pc = "upload"
    /\ LET r == UploadResult(uploaded, reviews)
       IN  /\ reviews' = r.reviews
           /\ upload_msg' = r.msg
    /\ pc' = "flags"
    /\ UNCHANGED <<seeded, uploaded, trigger, form, submit_msg, buf, nsub, run_start>>
    /\ UNCHANGED <<auditVars, flagVars>>

(* tab 3: the CSV behind the download button *)
Export ==
    /\ pc = "export"
    /\ buf' = to_csv(reviews)
    /\ pc' = "idle"
    /\ UNCHANGED <<seeded, reviews, uploaded, trigger, form, submit_msg, upload_msg, nsub,
                   run_start>>
    /\ UNCHANGED <<auditVars, flagVars>>

----------------------------------------------------------------------------
(* The session: every script run, from the first *)

Init ==
    /\ seeded = FALSE
    /\ reviews = NoTable
    /\ uploaded = NoFile
    /\ trigger = "open"
    /\ form = NoForm
    /\ pc = "seed"
    /\ submit_msg = "none"
    /\ upload_msg = "none"
    /\ buf = NoFile
    /\ nsub = 0
    /\ run_start = NoTable
    /\ all_flags = <<>>
    /\ by_group = GroupOptions[1]
    /\ threshold = ThresholdDefault
    /\ gap_sec = NotShown
    /\ air_sec = NotShown
    /\ text = <<>>
    /\ flags = <<>>

Next ==
    \/ Rerun
    \/ Submit
    \/ Upload
    \/ RemoveFile
    \/ Seed
    \/ SubmitHandler
    \/ UploadHandler
    \/ FlagsTable
    \/ GapSection
    \/ AirSection
    \/ Export

Spec == Init /\ [][Next]_vars

----------------------------------------------------------------------------
(* The fairness sections on every small table, for every choice of the two *)
(* widgets                                                                 *)

AuditGroups == {
    [gender |-> StrV(GenderOptions[1]), role |-> StrV(RoleOptions[1])],
    [gender |-> StrV(GenderOptions[2]), role |-> StrV(RoleOptions[2])],
    [gender |-> StrV(GenderOptions[3]), role |-> NaN],
    [gender |-> NaN, role |-> StrV(RoleOptions[3])] }

AuditOverall == {2, 4}

AuditRows ==
    {Row(StrV(<<"E","1">>), g.role, g.gender, IntV(3), IntV(3), IntV(3), IntV(o), StrV(<<"f","i","t">>)) :
        g \in AuditGroups, o \in AuditOverall}

AuditTables ==
    {[columns |-> Columns, rows |-> r] :
        r \in UNION {[1..n -> AuditRows] : n \in 0..MaxRows}}

InitAudit ==
    /\ seeded = TRUE
    /\ reviews \in AuditTables
    /\ uploaded = NoFile
    /\ trigger = "open"
    /\ form = NoForm
    /\ pc = "gap"
    /\ submit_msg = "none"
    /\ upload_msg = "none"
    /\ buf = NoFile
    /\ nsub = 0
    /\ run_start = reviews
    /\ all_flags = <<>>
    /\ by_group \in Range(GroupOptions)
    /\ threshold \in Thresholds
    /\ gap_sec = NotShown
    /\ air_sec = NotShown
    /\ text = <<>>
    /\ flags = <<>>

NextAudit == GapSection \/ AirSection

SpecAudit == InitAudit /\ [][NextAudit]_vars

----------------------------------------------------------------------------
(* find_flags on comments put together from pieces *)

Pieces == {
    <<"f","i","t">>, <<"F","i","t"," ">>, <<"n","o","t"," ","a"," ","g","o","o","d"," ">>, <<"c","u","l","t","u","r","a","l"," ">>, <<"O","L","D">>, <<"b">>, <<"U+0130">>,
    <<"y","o","u","n","g"," ","g","u","y","s">> }

RECURSIVE Joined(_)
Joined(n) ==
    IF n = 0 THEN {<<>>}
    ELSE Joined(n - 1) \cup {s \o p : s \in Joined(n - 1), p \in Pieces}

Comments == Joined(MaxPieces) \cup Range(SeedComment) \cup {DefaultComment}

CallFindFlags ==
    /\ pc = "call"
    /\ flags' = find_flags(text)
    /\ pc' = "return"
    /\ UNCHANGED <<seeded, reviews, uploaded, trigger, form, submit_msg, upload_msg, buf, nsub,
                   run_start, text>>
    /\ UNCHANGED auditVars

InitFlags ==
    /\ seeded = FALSE
    /\ reviews = NoTable
    /\ uploaded = NoFile
    /\ trigger = "open"
    /\ form = NoForm
    /\ pc = "call"
    /\ submit_msg = "none"
    /\ upload_msg = "none"
    /\ buf = NoFile
    /\ nsub = 0
    /\ run_start = NoTable
    /\ all_flags = <<>>
    /\ by_group = GroupOptions[1]
    /\ threshold = ThresholdDefault
    /\ gap_sec = NotShown
    /\ air_sec = NotShown
    /\ text \in Comments
    /\ flags = <<>>

NextFlags == CallFindFlags

SpecFlags == InitFlags /\ [][NextFlags]_vars

----------------------------------------------------------------------------
(* Properties *)

LastRow(df) == df.rows[Len(df.rows)]

IdBlank == Strip(form.employee_id) = <<>>

SubmitFails == pc = "submit" /\ form.submitted /\ IdBlank

UploadFails ==
    /\ pc = "upload"
    /\ uploaded.kind # "none"
    /\ (uploaded.kind = "bad" \/ ~(Needed \subseteq Range(uploaded.header)))

(* C1: a submit whose employee ID is blank after trimming, an upload whose  *)
(* file lacks a required column and an upload whose file cannot be parsed   *)
(* each report an error and leave the review table exactly as it was.       *)
C1_FailureKeepsRecords ==
    [][ /\ SubmitFails => (reviews' = reviews /\ submit_msg' = "error")
        /\ UploadFails => (reviews' = reviews /\ upload_msg' = "error") ]_vars

(* reached: a blank submit and an upload without the comment column have    *)
(* both been refused in one run, on a table that holds records              *)
C1_Witness ==
    /\ pc = "flags"
    /\ submit_msg = "error"
    /\ upload_msg = "error"
    /\ uploaded = MissingColumnFile
    /\ Len(reviews.rows) > 0

(* reached: an unparseable file has been refused *)
C1_WitnessParse ==
    pc = "flags" /\ upload_msg = "error" /\ uploaded = BadFile /\ Len(reviews.rows) > 0

Appended(before, after, f) ==
    /\ Len(after.rows) = Len(before.rows) + 1
    /\ LastRow(after)["employee_id"] = StrV(Strip(f.employee_id))
    /\ LastRow(after)["comment"] = StrV(Strip(f.comment))
    /\ \A i \in 1..Len(before.rows) : \A c \in Needed :
           after.rows[i][c] = before.rows[i][c]

(* C3: a script run changes the review table only by the append of the     *)
(* submission that started it or by the upload that started it: a run that  *)
(* carries neither leaves the table as it was, the seed is installed by the *)
(* first run only, and a run started by a valid submission ends with the    *)
(* table of before plus the new record, also while the uploader still holds *)
(* a file.                                                                  *)
C3_OnlyUserActionsMutate ==
    pc = "idle" =>
        /\ trigger = "open" => reviews = SeedData
        /\ trigger \in {"rerun", "remove"} => reviews = run_start
        /\ (trigger = "submit" /\ IdBlank) => reviews = run_start
        /\ (trigger = "submit" /\ ~IdBlank) => Appended(run_start, reviews, form)

(* C4: uploading the CSV that was just downloaded is accepted and gives the *)
(* table that was exported, field for field.                                *)
C4_RoundTrip ==
    (pc = "flags" /\ trigger = "upload" /\ uploaded = buf) =>
        (upload_msg = "success" /\ reviews = run_start)

----------------------------------------------------------------------------

RefTerms == VAGUE \o BIAS

Slice(t, idx, len) == SubSeq(t, idx + 1, idx + len)

Occurs(t, term) == \E i \in 0..Len(t) : MatchAt(Lower(t), term, i)

(* C5: every flag find_flags returns names a vocabulary term, has category  *)
(* Vague exactly for a term of the vague list, and the comment, compared    *)
(* without regard to case, holds the phrase at the flag's index; a comment  *)
(* with no vocabulary term gives no flag.                                   *)
C5_FlagsWellFormed ==
    pc = "return" =>
        /\ \A i \in 1..Len(flags) :
              /\ flags[i].phrase \in Range(RefTerms)
              /\ flags[i].category = "Vague" <=> flags[i].phrase \in Range(VAGUE)
              /\ flags[i].category = "Bias" <=> flags[i].phrase \notin Range(VAGUE)
              /\ flags[i].index >= 0
              /\ flags[i].index + Len(flags[i].phrase) <= Len(text)
              /\ Lower(Slice(text, flags[i].index, Len(flags[i].phrase))) = flags[i].phrase
        /\ (\A j \in 1..Len(RefTerms) : ~Occurs(text, RefTerms[j])) => flags = <<>>

(* the positions where term occurs in the lower-cased comment tl *)
RefMatches(tl, term) == {i \in 0..Len(tl) : MatchAt(tl, term, i)}

(* the left-to-right non-overlapping occurrences: a match is taken exactly  *)
(* when no taken match before it reaches into it                            *)
RefTaken(tl, term) ==
    LET M == RefMatches(tl, term)
    IN  CHOOSE S \in SUBSET M :
            \A i \in M : i \in S <=> \A j \in S : j < i => j + Len(term) <= i

RECURSIVE Ascending(_)
Ascending(S) == IF S = {} THEN <<>> ELSE <<Min(S)>> \o Ascending(S \ {Min(S)})

RefFlags(t) ==
    LET tl == Lower(t)
    IN  Flatten([k \in 1..Len(RefTerms) |->
                   LET at == Ascending(RefTaken(tl, RefTerms[k]))
                   IN  [j \in 1..Len(at) |->
                          [phrase |-> RefTerms[k],
                           category |-> IF k <= Len(VAGUE) THEN "Vague" ELSE "Bias",
                           index |-> at[j]]]])

(* C6: find_flags returns, term by term in the order vague list then bias   *)
(* list, every left-to-right non-overlapping occurrence of the term in the  *)
(* lower-cased comment, each once, each term scanned on its own.            *)
C6_MatchesReference == pc = "return" => flags = RefFlags(text)

(* reached: "fit" is flagged inside a flagged "not a good fit", and once    *)
(* more                                                                     *)
C6_Witness ==
    /\ pc = "return"
    /\ \E i, j \in 1..Len(flags) :
          /\ flags[i].phrase = <<"f","i","t">>
          /\ flags[j].phrase = <<"n","o","t"," ","a"," ","g","o","o","d"," ","f","i","t">>
          /\ flags[i].index = flags[j].index + 11
    /\ Cardinality({i \in 1..Len(flags) : flags[i].phrase = <<"f","i","t">>}) >= 2

----------------------------------------------------------------------------

(* the groups of the table: the distinct non-null values of the column *)
RefGroups == {reviews.rows[i][by_group] : i \in 1..Len(reviews.rows)} \ {NaN}

RefRows(g) == {i \in 1..Len(reviews.rows) : reviews.rows[i][by_group] = g}

RefCount(g) == Cardinality(RefRows(g))

RefFirst(g) == Min(RefRows(g))

RECURSIVE RefSum(_)
RefSum(S) ==
    IF S = {} THEN 0
    ELSE reviews.rows[Min(S)]["overall_rating"].n + RefSum(S \ {Min(S)})

(* |mean(g) - mean(h)| as a fraction *)
RefGapNum(g, h) == Abs(RefSum(RefRows(g)) * RefCount(h) - RefSum(RefRows(h)) * RefCount(g))
RefGapDen(g, h) == RefCount(g) * RefCount(h)

(* g comes before h by descending count, then by first appearance *)
RefBefore(g, h) ==
    \/ RefCount(g) > RefCount(h)
    \/ RefCount(g) = RefCount(h) /\ RefFirst(g) < RefFirst(h)

RefTop1 == CHOOSE g \in RefGroups : \A h \in RefGroups \ {g} : RefBefore(g, h)
RefTop2 ==
    CHOOSE g \in RefGroups \ {RefTop1} : \A h \in RefGroups \ {g, RefTop1} : RefBefore(g, h)

GapShown == pc \in {"air", "export"}

C7_WitnessZero ==
    GapShown /\ gap_sec.shown = "gap" /\ gap_sec.num = 0 /\ Len(reviews.rows) >= 3

RefMeets(g) ==
    Cardinality({i \in RefRows(g) : reviews.rows[i]["overall_rating"].n * 10 >= threshold})

(* rate(g) <= rate(h) *)
RefRateLeq(g, h) == RefMeets(g) * RefCount(h) <= RefMeets(h) * RefCount(g)

RefMaxGroup == CHOOSE g \in RefGroups : \A h \in RefGroups : RefRateLeq(h, g)
RefMinGroup == CHOOSE g \in RefGroups : \A h \in RefGroups : RefRateLeq(g, h)

AirShown == pc = "export"

(* C8: with two groups or more, the rate of each group is the fraction of   *)
(* its records with overall rating >= threshold and AIR is the least rate   *)
(* over the greatest; AIR is not-a-number exactly when the greatest rate is *)
(* 0, it is 0 when some rate is 0 and another is not, and 1 when all rates  *)
(* are equal and positive.                                                  *)
C8_RatesAndAir ==
    (AirShown /\ Cardinality(RefGroups) >= 2) =>
        /\ air_sec.shown = "air"
        /\ Cardinality(air_sec.rates) = Cardinality(RefGroups)
        /\ \A g \in RefGroups :
               [group |-> g, k |-> RefMeets(g), n |-> RefCount(g)] \in air_sec.rates
        /\ air_sec.nan <=> RefMeets(RefMaxGroup) = 0
        /\ air_sec.den > 0
        /\ ~air_sec.nan =>
               air_sec.num * (RefCount(RefMinGroup) * RefMeets(RefMaxGroup))
                 = (RefMeets(RefMinGroup) * RefCount(RefMaxGroup)) * air_sec.den
        /\ (\E g, h \in RefGroups : RefMeets(g) = 0 /\ RefMeets(h) > 0) =>
               (~air_sec.nan /\ air_sec.num = 0)
        /\ (RefMeets(RefMaxGroup) > 0 /\ RefRateLeq(RefMaxGroup, RefMinGroup)) =>
               (~air_sec.nan /\ air_sec.num = air_sec.den)

(* reached: three groups, one with rate 0, one with a rate strictly between *)
(* 0 and 1: AIR is 0                                                        *)
C8_Witness ==
    /\ AirShown
    /\ air_sec.shown = "air"
    /\ ~air_sec.nan
    /\ air_sec.num = 0
    /\ \E r \in air_sec.rates : r.k = 0
    /\ \E r \in air_sec.rates : r.k > 0

(* reached: every rate is 0 and AIR is not-a-number *)
C8_WitnessNan == AirShown /\ air_sec.shown = "air" /\ air_sec.nan

(* C9: with fewer than two distinct non-null values of the grouping field   *)
(* (the empty table and a table whose values are all missing included) the  *)
(* gap section and the AIR section can both be rendered and both show the   *)
(* insufficient-data note and no advisory; on every table the two sections  *)
(* agree on whether there are two groups.                                   *)
C9_FewerThanTwoGroups ==
    /\ (pc = "gap" /\ Cardinality(RefGroups) < 2) => ENABLED GapSection
    /\ (pc = "air" /\ Cardinality(RefGroups) < 2) => ENABLED AirSection
    /\ (GapShown /\ Cardinality(RefGroups) < 2) =>
           (gap_sec.shown = "info" /\ gap_sec.advice = "none")
    /\ (AirShown /\ Cardinality(RefGroups) < 2) =>
           (air_sec.shown = "info" /\ air_sec.advice = "none")
    /\ AirShown => (gap_sec.shown = "gap" <=> air_sec.shown = "air")
    /\ AirShown => (gap_sec.shown = "info" <=> air_sec.shown = "info")

(* reached: one group beside records whose grouping value is missing *)
C9_Witness ==
    /\ AirShown
    /\ Cardinality(RefGroups) = 1
    /\ \E i \in 1..Len(reviews.rows) : IsNull(reviews.rows[i][by_group])
    /\ gap_sec.shown = "info"
    /\ air_sec.shown = "info"

(* reached: the empty table *)
C9_WitnessEmpty ==
    AirShown /\ reviews.rows = <<>> /\ gap_sec.shown = "info" /\ air_sec.shown = "info"

(* C10: with two groups or more exactly one AIR advisory is shown: the      *)
(* error when AIR is a number below 0.80, the success message in every      *)
(* other case, AIR not-a-number included.                                   *)
C10_AirAdvisory ==
    (AirShown /\ Cardinality(RefGroups) >= 2) =>
        /\ air_sec.advice \in {"error", "success"}
        /\ air_sec.advice = "error" <=>
               /\ RefMeets(RefMaxGroup) > 0
               /\ 10 * RefMeets(RefMinGroup) * RefCount(RefMaxGroup)
                    < 8 * RefCount(RefMinGroup) * RefMeets(RefMaxGroup)

(* reached: every rate is 0, AIR is not-a-number, the success message shows *)
C10_Witness ==
    /\ AirShown
    /\ Cardinality(RefGroups) >= 2
    /\ RefMeets(RefMaxGroup) = 0
    /\ air_sec.nan
    /\ air_sec.advice = "success"

(* reached: AIR is a number below 0.80 and not 0, the error shows *)
C10_WitnessError ==
    AirShown /\ air_sec.shown = "air" /\ air_sec.num > 0 /\ air_sec.advice = "error"

====
